---------------------------- MODULE Spec2Model ----------------------------
(***************************************************************************)
(* Model of the Texas RRC gas production decoder                           *)
(* (src/rrc_upload_tools/upload_gas_production.py): the COMP-3 packed      *)
(* decimal decoder, the EBCDIC (cp500) text decoder, the well record       *)
(* parser, the fixed-length record scanner, the batched upload to the      *)
(* database and the table choices of main.                                 *)
(*                                                                         *)
(* Bytes are integers 0..255, byte strings are sequences of bytes, text is *)
(* a sequence of Unicode code points.  An optional value is a sequence of  *)
(* length at most one: None is << >> and a present value v is << v >>.     *)
(***************************************************************************)
EXTENDS Integers, Sequences, FiniteSets, TLC

VARIABLES
    pc,                 \* position of the modelled call
    data,               \* argument of COMP3Decoder.decode
    decimal_places,     \* second argument of decode_with_decimals
    ret,                \* value returned by the COMP3Decoder call
    record_data,        \* argument of parse_well_record
    results,            \* value returned by parse_well_record
    filepath,           \* the file process_ebc_file is given: whether it
                        \* can be read, and its (decompressed) bytes
    error_logged,       \* process_ebc_file: the except branch ran
    file_data,          \* bytes read by process_ebc_file
    offset,             \* process_ebc_file: read position
    record_count,       \* process_ebc_file: frames seen
    well_record_count,  \* process_ebc_file: frames with the well marker
    field_record_count, \* process_ebc_file: frames with the field marker
    all_records,        \* process_ebc_file: records accumulated
    table,              \* the production table in the database: whether it
                        \* exists, its committed rows, the statements run
    upload,             \* upload_to_database: arguments, locals, outcome
    main                \* main: answers read, locals, files to process

vars == << pc, data, decimal_places, ret, record_data, results, filepath,
           error_logged, file_data, offset, record_count, well_record_count,
           field_record_count, all_records, table, upload, main >>

decoderVars == << data, decimal_places, ret >>
parserVars  == << record_data, results >>
scannerVars == << filepath, error_logged, file_data, offset, record_count,
                  well_record_count, field_record_count, all_records >>
uploaderVars == << table, upload, main >>

---------------------------------------------------------------------------
(* Bounds of the model. *)

\* longest byte string handed to COMP3Decoder.decode
MaxLen == 3
\* largest decimal_places handed to decode_with_decimals
MaxDecimals == 3
\* most full frames in a scanned file
MaxFrames == 2
\* most records handed to upload_to_database
MaxRecords == 4
\* largest batch_size handed to upload_to_database
MaxBatch == 2
\* most files main downloads in mode 2
MaxFiles == 2
\* most records process_ebc_file returns for a file of main
MaxFileRecords == 2

---------------------------------------------------------------------------
(* Python values. *)

None == << >>
Some(v) == << v >>

Min(a, b) == IF a <= b THEN a ELSE b

\* s[a:b] for 0 <= a <= b: a slice is cut at the end of s, never an error
\* fault variant: a slice of b - a bytes whatever the length of s, the
\* bytes past the end read as 0x00
PySlicePadded(s, a, b) == [k \in 1..(b - a) |-> IF a + k <= Len(s) THEN s[a + k] ELSE 0]
PySlice(s, a, b) == SubSeq(s, a + 1, Min(b, Len(s)))

RECURSIVE Pow10(_)
Pow10(n) == IF n = 0 THEN 1 ELSE 10 * Pow10(n - 1)

\* all sequences over S of length 0..n
SeqsUpTo(S, n) == UNION { [1..k -> S] : k \in 0..n }

---------------------------------------------------------------------------
(* COMP3Decoder *)

\* (byte >> 4) & 0x0F
\* fault variant: the shift left out
HighNibbleNoShift(byte) == byte % 16
HighNibble(byte) == (byte \div 16) % 16

\* byte & 0x0F
\* fault variant: the high nibble taken again
LowNibbleShifted(byte) == (byte \div 16) % 16
LowNibble(byte) == byte % 16

\* if sign_nibble == 0x0D: result = -result
\* fault variant: the negation tied to 0x0C
ApplySignOnC(result, sign_nibble) == IF sign_nibble = 12 THEN -result ELSE result
ApplySign(result, sign_nibble) == IF sign_nibble = 13 THEN -result ELSE result

\* the body of "for i, byte in enumerate(data)", from index i on
RECURSIVE DecodeLoop(_, _, _)
DecodeLoop(bytes, i, result) ==
    IF i >= Len(bytes) THEN result
    ELSE LET byte == bytes[i + 1]
         IN  IF i = Len(bytes) - 1
             THEN DecodeLoop(bytes, i + 1,
                      ApplySign(result * 10 + HighNibble(byte), LowNibble(byte)))
             ELSE DecodeLoop(bytes, i + 1,
                      (result * 10 + HighNibble(byte)) * 10 + LowNibble(byte))

\* COMP3Decoder.decode: None for an empty slice, else the loop's result.
\* No step of the loop can raise on a bytes object, so the except branch
\* is never taken.
\* fault variant: the empty check left out
decodeNoEmptyCheck(bytes) == Some(DecodeLoop(bytes, 0, 0))
\* fault variant: a result of 0 taken for a failure ("if not result")
decodeZeroIsNone(bytes) ==
    IF bytes = << >> \/ DecodeLoop(bytes, 0, 0) = 0 THEN None
    ELSE Some(DecodeLoop(bytes, 0, 0))
\* fault variant: result = 1 for result = 0 before the loop
decodeFromOne(bytes) == IF bytes = << >> THEN None ELSE Some(DecodeLoop(bytes, 0, 1))
decode(bytes) == IF bytes = << >> THEN None ELSE Some(DecodeLoop(bytes, 0, 0))

\* int_value / (10 ** decimal_places), kept as the exact quotient num/den
\* fault variant: 10 * decimal_places for 10 ** decimal_places
TrueDivTimes(int_value, places) ==
    [num |-> int_value, den |-> 10 * places]
TrueDiv(int_value, places) ==
    [num |-> int_value, den |-> Pow10(places)]

\* COMP3Decoder.decode_with_decimals
decode_with_decimals(bytes, places) ==
    LET int_value == decode(bytes)
    IN  IF int_value = None THEN None
        ELSE Some(TrueDiv(int_value[1], places))

---------------------------------------------------------------------------
(* Text: bytes.decode('cp500'), str.strip(), int(str), f-string formatting *)

\* the cp500 code page: entry b+1 is the code point of byte b
CP500 == <<
      0,   1,   2,   3, 156,   9, 134, 127, 151, 141, 142,  11,  12,  13,  14,  15,
     16,  17,  18,  19, 157, 133,   8, 135,  24,  25, 146, 143,  28,  29,  30,  31,
    128, 129, 130, 131, 132,  10,  23,  27, 136, 137, 138, 139, 140,   5,   6,   7,
    144, 145,  22, 147, 148, 149, 150,   4, 152, 153, 154, 155,  20,  21, 158,  26,
     32, 160, 226, 228, 224, 225, 227, 229, 231, 241,  91,  46,  60,  40,  43,  33,
     38, 233, 234, 235, 232, 237, 238, 239, 236, 223,  93,  36,  42,  41,  59,  94,
     45,  47, 194, 196, 192, 193, 195, 197, 199, 209, 166,  44,  37,  95,  62,  63,
    248, 201, 202, 203, 200, 205, 206, 207, 204,  96,  58,  35,  64,  39,  61,  34,
    216,  97,  98,  99, 100, 101, 102, 103, 104, 105, 171, 187, 240, 253, 254, 177,
    176, 106, 107, 108, 109, 110, 111, 112, 113, 114, 170, 186, 230, 184, 198, 164,
    181, 126, 115, 116, 117, 118, 119, 120, 121, 122, 161, 191, 208, 221, 222, 174,
    162, 163, 165, 183, 169, 167, 182, 188, 189, 190, 172, 124, 175, 168, 180, 215,
    123,  65,  66,  67,  68,  69,  70,  71,  72,  73, 173, 244, 246, 242, 243, 245,
    125,  74,  75,  76,  77,  78,  79,  80,  81,  82, 185, 251, 252, 249, 250, 255,
     92, 247,  83,  84,  85,  86,  87,  88,  89,  90, 178, 212, 214, 210, 211, 213,
     48,  49,  50,  51,  52,  53,  54,  55,  56,  57, 179, 219, 220, 217, 218, 159 >>

\* ebcdic_bytes.decode('cp500'): cp500 maps every byte, so it never raises
Cp500Decode(bytes) == [i \in 1..Len(bytes) |-> CP500[bytes[i] + 1]]

\* the code points str.strip() removes: those with str.isspace() below 256
StripSpace == { 9, 10, 11, 12, 13, 28, 29, 30, 31, 32, 133, 160 }

\* the code points int(str) skips around a numeral
IntSpace == { 9, 10, 11, 12, 13, 32, 133, 160 }

\* s with its leading and trailing members of W removed
StripSet(s, W) ==
    LET keep == { i \in 1..Len(s) : s[i] \notin W }
    IN  IF keep = {} THEN << >>
        ELSE SubSeq(s, CHOOSE i \in keep : \A j \in keep : i <= j,
                       CHOOSE i \in keep : \A j \in keep : i >= j)

\* GasProductionUploader.decode_ebcdic_string: decode, then strip; the
\* except branch (return "") is never taken on a bytes object
\* fault variant: the decoded text returned without .strip()
decode_ebcdic_string_unstripped(ebcdic_bytes) == Cp500Decode(ebcdic_bytes)
decode_ebcdic_string(ebcdic_bytes) ==
    StripSet(Cp500Decode(ebcdic_bytes), StripSpace)

DigitChars == 48..57

\* the value of a numeral of digits and underscores, left to right
RECURSIVE DigitsValue(_, _, _)
DigitsValue(s, i, acc) ==
    IF i > Len(s) THEN acc
    ELSE DigitsValue(s, i + 1, IF s[i] = 95 THEN acc ELSE acc * 10 + (s[i] - 48))

\* int(s) of a text: optional surrounding whitespace, an optional sign,
\* then decimal digits with single underscores between them; None stands
\* for the ValueError raised otherwise
PyInt(s) ==
    LET t == StripSet(s, IntSpace)
        signed == t # << >> /\ t[1] \in { 43, 45 }
        body == IF signed THEN Tail(t) ELSE t
        wellFormed ==
            /\ body # << >>
            /\ \A i \in 1..Len(body) : body[i] \in DigitChars \cup { 95 }
            /\ body[1] \in DigitChars
            /\ body[Len(body)] \in DigitChars
            /\ \A i \in 1..(Len(body) - 1) : ~(body[i] = 95 /\ body[i + 1] = 95)
    IN  IF ~wellFormed THEN None
        ELSE IF signed /\ t[1] = 45 THEN Some(-DigitsValue(body, 1, 0))
        ELSE Some(DigitsValue(body, 1, 0))

\* str(n) for n >= 0
RECURSIVE DecStr(_)
DecStr(n) == IF n < 10 THEN << 48 + n >> ELSE Append(DecStr(n \div 10), 48 + (n % 10))

\* f"{year}-{month:02d}-01"
\* fault variant: the month not padded to two digits
FormatYearMonthNoPad(year, month) ==
    DecStr(year) \o << 45 >> \o DecStr(month) \o << 45, 48, 49 >>
FormatYearMonth(year, month) ==
    DecStr(year) \o << 45 >>
        \o (IF month < 10 THEN << 48 >> ELSE << >>) \o DecStr(month)
        \o << 45, 48, 49 >>

---------------------------------------------------------------------------
(* GasProductionUploader.parse_well_record *)

\* monthly_start, monthly_size, num_months
monthly_start == 316
monthly_size == 116
num_months == 14

\* the seven header fields, each a stripped text
\* fault variant: OPER-ID read one byte late
HeaderOperIdShifted(rec) ==
    [ well_id    |-> decode_ebcdic_string(PySlice(rec, 2, 8)),
      oper_id    |-> decode_ebcdic_string(PySlice(rec, 9, 15)),
      field_id   |-> decode_ebcdic_string(PySlice(rec, 14, 22)),
      w_dist_no  |-> decode_ebcdic_string(PySlice(rec, 22, 24)),
      w_dist_sfx |-> decode_ebcdic_string(PySlice(rec, 24, 25)),
      well_no    |-> decode_ebcdic_string(PySlice(rec, 25, 31)),
      well_nr    |-> decode_ebcdic_string(PySlice(rec, 26, 29)) ]
Header(rec) ==
    [ well_id    |-> decode_ebcdic_string(PySlice(rec, 2, 8)),
      oper_id    |-> decode_ebcdic_string(PySlice(rec, 8, 14)),
      field_id   |-> decode_ebcdic_string(PySlice(rec, 14, 22)),
      w_dist_no  |-> decode_ebcdic_string(PySlice(rec, 22, 24)),
      w_dist_sfx |-> decode_ebcdic_string(PySlice(rec, 24, 25)),
      well_no    |-> decode_ebcdic_string(PySlice(rec, 25, 31)),
      well_nr    |-> decode_ebcdic_string(PySlice(rec, 26, 29)) ]

\* offset = monthly_start + (month_idx * monthly_size)
\* fault variant: the slots counted from 1
SlotOffsetFromOne(month_idx) == monthly_start + ((month_idx + 1) * monthly_size)
SlotOffset(month_idx) == monthly_start + (month_idx * monthly_size)

\* w_date_str of a slot
SlotDateStr(rec, month_idx) ==
    decode_ebcdic_string(PySlice(rec, SlotOffset(month_idx), SlotOffset(month_idx) + 6))

\* the range check: 1 <= month <= 12 and 1900 <= year <= 2100
DateInRange(year, month) == 1 <= month /\ month <= 12 /\ 1900 <= year /\ year <= 2100

\* year_month of a date text: None, or the first day of the month as text
ParseYearMonth(w_date_str) ==
    IF w_date_str # << >> /\ Len(w_date_str) = 6
    THEN LET year  == PyInt(PySlice(w_date_str, 0, 4))
             month == PyInt(PySlice(w_date_str, 4, 6))
         IN  IF year = None \/ month = None THEN None
             ELSE IF DateInRange(year[1], month[1])
                  THEN Some(FormatYearMonth(year[1], month[1]))
                  ELSE None
    ELSE None

\* w_type_mo of a slot
SlotTypeMo(rec, month_idx) ==
    decode_ebcdic_string(PySlice(rec, SlotOffset(month_idx) + 20, SlotOffset(month_idx) + 21))

\* gas_prd of a slot
SlotGasPrd(rec, month_idx) ==
    decode(PySlice(rec, SlotOffset(month_idx) + 36, SlotOffset(month_idx) + 40))

\* if year_month and (gas_prd is not None or w_type_mo)
\* fault variant: the status alternative left out
IncludeSlotProdOnly(year_month, gas_prd, w_type_mo) ==
    (year_month # None /\ year_month[1] # << >>) /\ gas_prd # None
IncludeSlot(year_month, gas_prd, w_type_mo) ==
    (year_month # None /\ year_month[1] # << >>)
        /\ (gas_prd # None \/ w_type_mo # << >>)

\* 'gas_production': gas_prd if gas_prd is not None else 0
\* fault variant: an absent production reported as -1
GasProductionNoDefault(gas_prd) == IF gas_prd # None THEN gas_prd[1] ELSE -1
GasProductionOf(gas_prd) == IF gas_prd # None THEN gas_prd[1] ELSE 0

\* 'well_type_month': w_type_mo if w_type_mo else ''
WellTypeMonthOf(w_type_mo) == IF w_type_mo # << >> THEN w_type_mo ELSE << >>

\* one pass of the loop body: the records the slot appends (none or one)
MonthlyRecord(rec, hdr, month_idx) ==
    LET year_month == ParseYearMonth(SlotDateStr(rec, month_idx))
        w_type_mo  == SlotTypeMo(rec, month_idx)
        gas_prd    == SlotGasPrd(rec, month_idx)
    IN  IF IncludeSlot(year_month, gas_prd, w_type_mo)
        THEN << [ well_id         |-> hdr.well_id,
                  oper_id         |-> hdr.oper_id,
                  field_id        |-> hdr.field_id,
                  w_dist_no       |-> hdr.w_dist_no,
                  w_dist_sfx      |-> hdr.w_dist_sfx,
                  well_no         |-> hdr.well_no,
                  well_nr         |-> hdr.well_nr,
                  year_month      |-> year_month[1],
                  gas_production  |-> GasProductionOf(gas_prd),
                  well_type_month |-> WellTypeMonthOf(w_type_mo) ] >>
        ELSE << >>

\* for month_idx in range(num_months), from month_idx on
\* fault variant: each record put in front of the list (insert for append)
RECURSIVE MonthlyLoopPrepend(_, _, _, _)
MonthlyLoopPrepend(rec, hdr, month_idx, acc) ==
    IF month_idx >= num_months THEN acc
    ELSE MonthlyLoopPrepend(rec, hdr, month_idx + 1,
                            MonthlyRecord(rec, hdr, month_idx) \o acc)
RECURSIVE MonthlyLoop(_, _, _, _)
MonthlyLoop(rec, hdr, month_idx, acc) ==
    IF month_idx >= num_months THEN acc
    ELSE MonthlyLoop(rec, hdr, month_idx + 1, acc \o MonthlyRecord(rec, hdr, month_idx))

\* parse_well_record: no step raises on a bytes object, so the except
\* branch is never taken
\* fault variant: the empty well number check left out
parse_well_record_no_guard(rec) == MonthlyLoop(rec, Header(rec), 0, << >>)
parse_well_record(rec) ==
    LET hdr == Header(rec)
    IN  IF hdr.well_no = << >> THEN << >>
        ELSE MonthlyLoop(rec, hdr, 0, << >>)

---------------------------------------------------------------------------
(* Input frames: byte strings laid out as the COBOL record of the          *)
(* parse_well_record docstring, from which the runs draw their inputs.     *)

\* RECORD_LENGTH, FIELD_RECORD_TYPE (EBCDIC '1'), WELL_RECORD_TYPE (EBCDIC '5')
RECORD_LENGTH == 2120
FIELD_RECORD_TYPE == 241
WELL_RECORD_TYPE == 245

\* date fields: "202301", "210012", blank, "202313", "189912", "2023 1",
\* "20230A", six NUL bytes
DateFields ==
    { << 242, 240, 242, 243, 240, 241 >>,
      << 242, 241, 240, 240, 241, 242 >>,
      << 64, 64, 64, 64, 64, 64 >>,
      << 242, 240, 242, 243, 241, 243 >>,
      << 241, 248, 249, 249, 241, 242 >>,
      << 242, 240, 242, 243, 64, 241 >>,
      << 242, 240, 242, 243, 240, 193 >>,
      << 0, 0, 0, 0, 0, 0 >> }

\* status fields: blank, "A"
StatusFields == { 64, 193 }

\* production fields: 00 00 12 3C (123), 00 00 00 0C (0)
ProdFields == { << 0, 0, 18, 60 >>, << 0, 0, 0, 12 >> }

SlotKinds ==
    [ date : DateFields, status : StatusFields, prod : ProdFields ]

\* a slot of blanks, and a slot dated 202302 with status "B" and
\* production 00 04 56 7D (-4567)
BlankSlot ==
    [ date |-> << 64, 64, 64, 64, 64, 64 >>, status |-> 64,
      prod |-> << 64, 64, 64, 64 >> ]
LastSlot ==
    [ date |-> << 242, 240, 242, 243, 240, 242 >>, status |-> 194,
      prod |-> << 0, 4, 86, 125 >> ]

\* well number fields: "001234", blank
WellNoFields ==
    { << 240, 240, 241, 242, 243, 244 >>, << 64, 64, 64, 64, 64, 64 >> }

\* byte q of a monthly sub-record
SlotByte(slot, q) ==
    IF q < 6 THEN slot.date[q + 1]
    ELSE IF q = 20 THEN slot.status
    ELSE IF q >= 36 /\ q < 40 THEN slot.prod[q - 35]
    ELSE 64

\* a frame: the marker, header digits at bytes 2..24, the well number at
\* bytes 25..30, slot 0 and slot 13 as given, EBCDIC blanks (0x40) elsewhere
MkFrame(marker, well_no, slot0, slot13) ==
    [ i \in 1..RECORD_LENGTH |->
        LET p == i - 1
        IN  IF p = 0 THEN marker
            ELSE IF p >= 2 /\ p < 25 THEN 240 + (p % 10)
            ELSE IF p >= 25 /\ p < 31 THEN well_no[p - 24]
            ELSE IF p >= SlotOffset(0) /\ p < SlotOffset(1)
                 THEN SlotByte(slot0, p - SlotOffset(0))
            ELSE IF p >= SlotOffset(13) /\ p < SlotOffset(14)
                 THEN SlotByte(slot13, p - SlotOffset(13))
            ELSE 64 ]

\* lengths a record handed to parse_well_record is cut to: the full frame,
\* slot 0 without its production field, slot 0 with half of it, the
\* header only, the header without the well number, slot 13 without its
\* production field, nothing at all
CutLengths == { RECORD_LENGTH, 337, 354, 31, 25, 1845, 0 }

\* the full frames handed to parse_well_record
ParseFrames ==
    { MkFrame(WELL_RECORD_TYPE, w, s0, s13) :
        w \in WellNoFields, s0 \in SlotKinds, s13 \in { BlankSlot, LastSlot } }

ParseInputs == { PySlice(f, 0, n) : f \in ParseFrames, n \in CutLengths }

\* the valid slot: dated 202301, status "A", production 00 00 12 3C
ValidSlot ==
    [ date |-> << 242, 240, 242, 243, 240, 241 >>, status |-> 193,
      prod |-> << 0, 0, 18, 60 >> ]

\* a slot dated 202301 with a blank status and production 00 00 00 0C (0)
UnflaggedSlot ==
    [ date |-> << 242, 240, 242, 243, 240, 241 >>, status |-> 64,
      prod |-> << 0, 0, 0, 12 >> ]

\* the frames of scanned files: a field frame and a frame with marker
\* 0x00, both otherwise laid out as a valid well frame; well frames with
\* two records, with one record, with a blank well number, with no dated
\* slot, and the well frame of the end-to-end example (well 001234, slot 0
\* dated 202301 with production 123, no other dated slot), and a well
\* frame whose only dated slot has a blank status and production 0
ScanFrames ==
    { MkFrame(FIELD_RECORD_TYPE, << 240, 240, 241, 242, 243, 244 >>, ValidSlot, LastSlot),
      MkFrame(0, << 240, 240, 241, 242, 243, 244 >>, ValidSlot, LastSlot),
      MkFrame(WELL_RECORD_TYPE, << 240, 240, 241, 242, 243, 244 >>, ValidSlot, LastSlot),
      MkFrame(WELL_RECORD_TYPE, << 240, 240, 241, 242, 243, 245 >>, BlankSlot, LastSlot),
      MkFrame(WELL_RECORD_TYPE, << 64, 64, 64, 64, 64, 64 >>, ValidSlot, LastSlot),
      MkFrame(WELL_RECORD_TYPE, << 240, 240, 241, 242, 243, 244 >>, BlankSlot, BlankSlot),
      MkFrame(WELL_RECORD_TYPE, << 240, 240, 241, 242, 243, 244 >>, ValidSlot, BlankSlot),
      MkFrame(WELL_RECORD_TYPE, << 240, 240, 241, 242, 243, 246 >>, UnflaggedSlot, BlankSlot) }

\* what follows the last full frame: nothing, one byte (a well marker),
\* all but the last byte of a valid well frame
ScanTails ==
    { << >>,
      << WELL_RECORD_TYPE >>,
      PySlice(MkFrame(WELL_RECORD_TYPE, << 240, 240, 241, 242, 243, 244 >>, ValidSlot, LastSlot),
              0, RECORD_LENGTH - 1) }

RECURSIVE Concat(_)
Concat(seqs) == IF seqs = << >> THEN << >> ELSE Head(seqs) \o Concat(Tail(seqs))

\* the contents of scanned files: up to MaxFrames frames and a tail
ScanInputs ==
    { Concat(fs) \o t : fs \in SeqsUpTo(ScanFrames, MaxFrames), t \in ScanTails }

---------------------------------------------------------------------------
(* Inputs of the decoder runs. *)

\* 0x00 0x01 0x0C 0x0D 0x12 0x2C 0x3C 0x3D 0x3F 0x45 0x67 0x8C 0xAB
ByteVals == { 0, 1, 12, 13, 18, 44, 60, 61, 63, 69, 103, 140, 171 }

IdleScanner ==
    /\ filepath = [readable |-> FALSE, content |-> << >>]
    /\ error_logged = FALSE
    /\ file_data = << >>
    /\ offset = 0
    /\ record_count = 0
    /\ well_record_count = 0
    /\ field_record_count = 0
    /\ all_records = << >>

\* no table, no call of upload_to_database, main not started
NoTable == [ exists |-> FALSE, rows |-> << >>, log |-> << >> ]

IdleUploader ==
    /\ table = NoTable
    /\ upload = [ attempt |-> 0 ]
    /\ main = [ mode |-> "0" ]

IdleParser ==
    /\ record_data = << >>
    /\ results = << >>

IdleDecoder ==
    /\ data = << >>
    /\ decimal_places = 0
    /\ ret = None

InitDecode ==
    /\ pc = "start"
    /\ data \in SeqsUpTo(ByteVals, MaxLen)
    /\ decimal_places = 0
    /\ ret = None
    /\ IdleParser
    /\ IdleScanner
    /\ IdleUploader

\* a call of COMP3Decoder.decode(data)
CallDecode ==
    /\ pc = "start"
    /\ ret' = decode(data)
    /\ pc' = "decode"
    /\ UNCHANGED << data, decimal_places, parserVars, scannerVars, uploaderVars >>

\* a call of COMP3Decoder.decode_with_decimals(data, n)
CallDecodeWithDecimals ==
    /\ pc = "start"
    /\ \E n \in 0..MaxDecimals :
          /\ decimal_places' = n
          /\ ret' = decode_with_decimals(data, n)
          /\ pc' = "decode_with_decimals"
    /\ UNCHANGED << data, parserVars, scannerVars, uploaderVars >>

NextDecode == CallDecode \/ CallDecodeWithDecimals

SpecDecode == InitDecode /\ [][NextDecode]_vars

---------------------------------------------------------------------------
(* Calls of GasProductionUploader.decode_ebcdic_string. *)

\* the bytes of text fields: 0x40 (space), 0x05 (tab), 0x41 (no-break
\* space), 0x1C (file separator), 0xF1 ("1"), 0xC1 ("A"), 0x00 and 0xFF
TextByteVals == { 64, 5, 65, 28, 241, 193, 0, 255 }

InitText ==
    /\ pc = "start"
    /\ data \in SeqsUpTo(TextByteVals, MaxLen)
    /\ decimal_places = 0
    /\ ret = << >>
    /\ IdleParser
    /\ IdleScanner
    /\ IdleUploader

\* a call of decode_ebcdic_string(data); ret is the text returned
CallDecodeEbcdicString ==
    /\ pc = "start"
    /\ ret' = decode_ebcdic_string(data)
    /\ pc' = "decode_ebcdic_string"
    /\ UNCHANGED << data, decimal_places, parserVars, scannerVars, uploaderVars >>

NextText == CallDecodeEbcdicString

SpecText == InitText /\ [][NextText]_vars

---------------------------------------------------------------------------
(* Runs of parse_well_record on one record. *)

InitParse ==
    /\ pc = "start"
    /\ record_data \in ParseInputs
    /\ results = << >>
    /\ IdleDecoder
    /\ IdleScanner
    /\ IdleUploader

\* a call of parse_well_record(record_data)
CallParse ==
    /\ pc = "start"
    /\ results' = parse_well_record(record_data)
    /\ pc' = "parse_well_record"
    /\ UNCHANGED << record_data, decoderVars, scannerVars, uploaderVars >>

NextParse == CallParse

SpecParse == InitParse /\ [][NextParse]_vars

---------------------------------------------------------------------------
(* GasProductionUploader.process_ebc_file *)

\* while offset + self.RECORD_LENGTH <= file_size
\* fault variant: offset < file_size
MoreFramesAnyByte(off, bytes) == off < Len(bytes)
MoreFrames(off, bytes) == off + RECORD_LENGTH <= Len(bytes)

\* record_type == self.FIELD_RECORD_TYPE / self.WELL_RECORD_TYPE
\* fault variant: every marker but the well marker taken as the field marker
IsFieldRecordNonWell(record) == PySlice(record, 0, 1) # << WELL_RECORD_TYPE >>
IsFieldRecord(record) == PySlice(record, 0, 1) = << FIELD_RECORD_TYPE >>
\* fault variant: else for elif
IsWellRecordAlways(record) == TRUE
IsWellRecord(record) == PySlice(record, 0, 1) = << WELL_RECORD_TYPE >>

\* offset += self.RECORD_LENGTH
\* fault variant: one byte too far
NextOffsetPlusOne(off) == off + RECORD_LENGTH + 1
NextOffset(off) == off + RECORD_LENGTH

\* all_records.extend(parsed_data)
\* fault variant: the parsed records put in front of the list
ExtendFront(records, parsed_data) == parsed_data \o records
\* fault variant: the list replaced by the parsed records (= for extend)
ExtendReplace(records, parsed_data) == parsed_data
Extend(records, parsed_data) == records \o parsed_data

InitScan ==
    /\ pc = "open"
    /\ filepath \in [ readable : BOOLEAN, content : ScanInputs ]
    /\ error_logged = FALSE
    /\ file_data = << >>
    /\ offset = 0
    /\ record_count = 0
    /\ well_record_count = 0
    /\ field_record_count = 0
    /\ all_records = << >>
    /\ IdleDecoder
    /\ IdleParser
    /\ IdleUploader

\* the file is opened and read whole (through gzip for a .gz suffix), and
\* the counters are set to zero
ReadFile ==
    /\ pc = "open"
    /\ filepath.readable
    /\ file_data' = filepath.content
    /\ offset' = 0
    /\ record_count' = 0
    /\ well_record_count' = 0
    /\ field_record_count' = 0
    /\ pc' = "loop"
    /\ UNCHANGED << filepath, error_logged, all_records, decoderVars, parserVars,
                    uploaderVars >>

\* open, read or decompression raises: the except branch logs the error and
\* the function returns all_records, still empty
ReadFails ==
    /\ pc = "open"
    /\ ~filepath.readable
    /\ error_logged' = TRUE
    /\ pc' = "return"
    /\ UNCHANGED << filepath, file_data, offset, record_count, well_record_count,
                    field_record_count, all_records, decoderVars, parserVars,
                    uploaderVars >>

\* one pass of the while loop: a field frame, a well frame (parsed, its
\* records appended), or any other frame
ScanRecord ==
    /\ pc = "loop"
    /\ MoreFrames(offset, file_data)
    /\ LET record == PySlice(file_data, offset, offset + RECORD_LENGTH)
       IN  IF IsFieldRecord(record)
           THEN /\ field_record_count' = field_record_count + 1
                /\ UNCHANGED << well_record_count, all_records, parserVars >>
           ELSE IF IsWellRecord(record)
           THEN /\ well_record_count' = well_record_count + 1
                /\ record_data' = record
                /\ results' = parse_well_record(record)
                /\ all_records' = Extend(all_records, parse_well_record(record))
                /\ UNCHANGED field_record_count
           ELSE UNCHANGED << field_record_count, well_record_count,
                             all_records, parserVars >>
    /\ record_count' = record_count + 1
    /\ offset' = NextOffset(offset)
    /\ UNCHANGED << pc, filepath, error_logged, file_data, decoderVars, uploaderVars >>

\* the loop condition fails: the totals are logged and all_records returned
ScanReturn ==
    /\ pc = "loop"
    /\ ~MoreFrames(offset, file_data)
    /\ pc' = "return"
    /\ UNCHANGED << scannerVars, decoderVars, parserVars, uploaderVars >>

NextScan == ReadFile \/ ReadFails \/ ScanRecord \/ ScanReturn

SpecScan == InitScan /\ [][NextScan]_vars

\* the control of the while loop: the condition holds and the offset moves
\* on. A step of the scan is a pass of the loop exactly if it is such a
\* step, and a pass can be taken exactly if such a step can.
ScanAdvance ==
    /\ pc = "loop"
    /\ MoreFrames(offset, file_data)
    /\ offset' = NextOffset(offset)

\* the scan as a running program: a step that can be taken is taken
FairSpecScan ==
    /\ SpecScan
    /\ WF_vars(ReadFile) /\ WF_vars(ReadFails)
    /\ WF_offset(ScanAdvance) /\ WF_vars(ScanReturn)

\* The same loop as a function of the bytes read, for statements that
\* compare the scans of different byte strings.

\* offset = 0, the three counters 0, all_records = []
ScanStart ==
    [ offset |-> 0, record_count |-> 0, well_record_count |-> 0,
      field_record_count |-> 0, all_records |-> << >> ]

\* one pass of the while loop from the local state st
ScanPass(bytes, st) ==
    LET record == PySlice(bytes, st.offset, st.offset + RECORD_LENGTH)
    IN  [ offset |-> NextOffset(st.offset),
          record_count |-> st.record_count + 1,
          field_record_count |->
              IF IsFieldRecord(record) THEN st.field_record_count + 1
              ELSE st.field_record_count,
          well_record_count |->
              IF ~IsFieldRecord(record) /\ IsWellRecord(record)
              THEN st.well_record_count + 1 ELSE st.well_record_count,
          all_records |->
              IF ~IsFieldRecord(record) /\ IsWellRecord(record)
              THEN Extend(st.all_records, parse_well_record(record))
              ELSE st.all_records ]

\* the passes of the while loop from st until the condition fails
RECURSIVE ScanLoop(_, _)
ScanLoop(bytes, st) ==
    IF MoreFrames(st.offset, bytes) THEN ScanLoop(bytes, ScanPass(bytes, st)) ELSE st

\* the local state process_ebc_file ends with on a file of these bytes
process_ebc_file(bytes) == ScanLoop(bytes, ScanStart)

---------------------------------------------------------------------------
(* GasProductionUploader.create_production_table and upload_to_database,   *)
(* and a caller that calls again after a failure.  A record is known by    *)
(* its place in the list handed in: records = << 1, ..., n >>.  A          *)
(* statement inside "with self.engine.begin()" is committed when the       *)
(* block ends and rolled back when it raises.                              *)

\* the list of n records
RecordsOf(n) == [k \in 1..n |-> k]

\* s[a:] for a >= 0
PySliceFrom(s, a) == SubSeq(s, a + 1, Len(s))

\* create_production_table when nothing raises: CREATE TABLE unless the
\* table exists
CreateProductionTable(t) ==
    IF t.exists THEN t
    ELSE [t EXCEPT !.exists = TRUE, !.log = Append(@, "create")]

\* if skip_records > 0: records = records[skip_records:]
SkipRecords(records, skip_records) ==
    IF skip_records > 0 THEN PySliceFrom(records, skip_records) ELSE records

\* batch = records[i:i+batch_size]
\* fault variant: records[i:batch_size]
BatchNoOffset(records, i, batch_size) == PySlice(records, i, batch_size)
Batch(records, i, batch_size) == PySlice(records, i, i + batch_size)

\* the rows of the table after an INSERT of the batch raised inside
\* "with self.engine.begin()": the transaction is rolled back
\* fault variant: the first row of the batch stays (no transaction)
RolledBackKeepsFirst(rows, batch) == rows \o SubSeq(batch, 1, 1)
RolledBack(rows, batch) == rows

\* the frame of a call upload_to_database(records, table_name, batch_size,
\* skip_records); prev is what the caller keeps of a call that raised
NewCall(attempt, records, batch_size, skip_records, prev) ==
    [ attempt |-> attempt, records_arg |-> records, batch_size |-> batch_size,
      skip_records |-> skip_records, records |-> records, i |-> 0,
      uploaded |-> 0, reported |-> None, ret |-> None, prev |-> prev ]

InitUpload ==
    /\ pc = "upload_to_database"
    /\ table \in { NoTable, [ exists |-> TRUE, rows |-> << >>, log |-> << >> ] }
    /\ \E n \in 0..MaxRecords, batch_size \in 1..MaxBatch, skip_records \in 0..(MaxRecords + 1) :
          upload = NewCall(1, RecordsOf(n), batch_size, skip_records, None)
    /\ main = [ mode |-> "0" ]
    /\ IdleDecoder
    /\ IdleParser
    /\ IdleScanner

\* the two early returns: no records, or none left after the skip
UploadNothing ==
    /\ pc = "upload_to_database"
    /\ SkipRecords(upload.records_arg, upload.skip_records) = << >>
    /\ upload' = [upload EXCEPT !.records = << >>, !.ret = Some(0)]
    /\ pc' = "upload_return"
    /\ UNCHANGED << table, main, decoderVars, parserVars, scannerVars >>

\* the skip is applied and the try block entered
UploadBegin ==
    /\ pc = "upload_to_database"
    /\ SkipRecords(upload.records_arg, upload.skip_records) # << >>
    /\ upload' = [upload EXCEPT
                    !.records = SkipRecords(upload.records_arg, upload.skip_records)]
    /\ pc' = "create_production_table"
    /\ UNCHANGED << table, main, decoderVars, parserVars, scannerVars >>

\* self.create_production_table(table_name) returns; uploaded = 0
EnsureTable ==
    /\ pc = "create_production_table"
    /\ table' = CreateProductionTable(table)
    /\ upload' = [upload EXCEPT !.i = 0, !.uploaded = 0]
    /\ pc' = "batches"
    /\ UNCHANGED << main, decoderVars, parserVars, scannerVars >>

\* create_production_table raises (both attempts failed): the except
\* branch logs and re-raises
EnsureTableRaises ==
    /\ pc = "create_production_table"
    /\ pc' = "upload_raised"
    /\ UNCHANGED << table, upload, main, decoderVars, parserVars, scannerVars >>

\* one pass of "for i in range(0, len(records), batch_size)" whose INSERT
\* succeeds: the batch is committed, counted and reported
InsertBatch ==
    /\ pc = "batches"
    /\ upload.i < Len(upload.records)
    /\ table.exists
    /\ LET batch == Batch(upload.records, upload.i, upload.batch_size)
       IN  /\ table' = [table EXCEPT !.rows = @ \o batch, !.log = Append(@, "insert")]
           /\ upload' = [upload EXCEPT
                           !.uploaded = @ + Len(batch),
                           !.reported = Some(upload.uploaded + Len(batch)),
                           !.i = @ + upload.batch_size]
    /\ UNCHANGED << pc, main, decoderVars, parserVars, scannerVars >>

\* a pass whose INSERT raises: the transaction is rolled back, the except
\* branch logs and re-raises
InsertBatchRaises ==
    /\ pc = "batches"
    /\ upload.i < Len(upload.records)
    /\ table' = [table EXCEPT
                   !.rows = RolledBack(@, Batch(upload.records, upload.i, upload.batch_size))]
    /\ pc' = "upload_raised"
    /\ UNCHANGED << upload, main, decoderVars, parserVars, scannerVars >>

\* the loop is over: return uploaded
UploadReturn ==
    /\ pc = "batches"
    /\ upload.i >= Len(upload.records)
    /\ upload' = [upload EXCEPT !.ret = Some(upload.uploaded)]
    /\ pc' = "upload_return"
    /\ UNCHANGED << table, main, decoderVars, parserVars, scannerVars >>

\* the caller of a call that raised calls once more, on the same records
\* and with a skip_records of its choice ("for resuming failed uploads")
CallAgain ==
    /\ pc = "upload_raised"
    /\ upload.attempt = 1
    /\ \E skip_records \in 0..Len(upload.records_arg) :
          upload' = NewCall(2, upload.records_arg, upload.batch_size, skip_records,
                            Some([ skip_records |-> upload.skip_records,
                                   reported |-> upload.reported,
                                   rows |-> table.rows ]))
    /\ pc' = "upload_to_database"
    /\ UNCHANGED << table, main, decoderVars, parserVars, scannerVars >>

NextUpload ==
    \/ UploadNothing \/ UploadBegin \/ EnsureTable \/ EnsureTableRaises
    \/ InsertBatch \/ InsertBatchRaises \/ UploadReturn \/ CallAgain

SpecUpload == InitUpload /\ [][NextUpload]_vars

---------------------------------------------------------------------------
(* main, modes 2 and 3, from the table question on: the choice of what to  *)
(* do with the table, its confirmation, the resume question and the loop   *)
(* over the files.  A file is known by the records process_ebc_file        *)
(* returns for it; record k of file f is 10 * f + k.  batch_size is left   *)
(* at its default of 5000, so each upload is one batch.                    *)

\* the records of file f when it has c of them
FileRecords(f, c) == [k \in 1..c |-> 10 * f + k]

\* the files of a run, by their record counts
FilesOf(counts) == [f \in 1..Len(counts) |-> FileRecords(f, counts[f])]

\* a table left by an earlier run, with one row
OldTable == [ exists |-> TRUE, rows |-> << 0 >>, log |-> << >> ]

\* confirm != 'yes' cancels
\* fault variant: only 'no' cancels
ConfirmedUnlessNo(confirm) == confirm # "no"
Confirmed(confirm) == confirm = "yes"

\* upload_to_database(records, TABLE_NAME, skip_records=skip_records) when
\* nothing raises: the table after the call
UploadedTable(t, records, skip_records) ==
    IF SkipRecords(records, skip_records) = << >> THEN t
    ELSE [CreateProductionTable(t) EXCEPT
            !.rows = @ \o SkipRecords(records, skip_records),
            !.log = Append(@, "insert")]

InitMain ==
    /\ pc = "main_action"
    /\ table \in { NoTable, OldTable }
    /\ \E mode \in { "2", "3" } :
          \E counts \in UNION { [1..n -> 0..MaxFileRecords] :
                                  n \in 1..(IF mode = "3" THEN 1 ELSE MaxFiles) } :
              main = [ mode |-> mode, downloaded |-> FilesOf(counts), action |-> "",
                       confirm |-> "", asked |-> 0, skip_records |-> 0,
                       total_records |-> 0, next |-> 1, skips |-> << >>,
                       outcome |-> "" ]
    /\ upload = [ attempt |-> 0 ]
    /\ IdleDecoder
    /\ IdleParser
    /\ IdleScanner

\* action = input("Enter choice (1-3): ").strip(); anything but '1', '2',
\* '3' cancels
ChooseAction ==
    /\ pc = "main_action"
    /\ \E action \in { "1", "2", "3", "4" } :
          /\ main' = [main EXCEPT
                        !.action = action,
                        !.outcome = IF action \in { "1", "2", "3" } THEN @ ELSE "cancelled"]
          /\ pc' = CASE action \in { "1", "2" } -> "main_confirm"
                     [] action = "3" -> "create_production_table"
                     [] OTHER -> "main_return"
    /\ UNCHANGED << table, upload, decoderVars, parserVars, scannerVars >>

\* confirm = input("Type 'yes' ...").strip().lower()
AnswerConfirm ==
    /\ pc = "main_confirm"
    /\ \E confirm \in { "yes", "no", "y", "" } :
          /\ main' = [main EXCEPT
                        !.confirm = confirm,
                        !.outcome = IF Confirmed(confirm) THEN @ ELSE "cancelled"]
          /\ pc' = IF ~Confirmed(confirm) THEN "main_return"
                   ELSE IF main.action = "2" THEN "drop_and_recreate_table"
                   ELSE "truncate_table"
    /\ UNCHANGED << table, upload, decoderVars, parserVars, scannerVars >>

\* uploader.drop_and_recreate_table(TABLE_NAME): DROP TABLE IF EXISTS, then
\* create_production_table
DropAndRecreateTable ==
    /\ pc = "drop_and_recreate_table"
    /\ table' = CreateProductionTable(
                   [ exists |-> FALSE, rows |-> << >>, log |-> Append(table.log, "drop") ])
    /\ pc' = "main_resume"
    /\ UNCHANGED << main, upload, decoderVars, parserVars, scannerVars >>

\* uploader.truncate_table(TABLE_NAME): create_production_table, then
\* DELETE FROM
TruncateTable ==
    /\ pc = "truncate_table"
    /\ table' = [CreateProductionTable(table) EXCEPT
                   !.rows = << >>, !.log = Append(@, "delete")]
    /\ pc' = "main_resume"
    /\ UNCHANGED << main, upload, decoderVars, parserVars, scannerVars >>

\* action '3': uploader.create_production_table(TABLE_NAME)
AppendToTable ==
    /\ pc = "create_production_table"
    /\ table' = CreateProductionTable(table)
    /\ pc' = "main_resume"
    /\ UNCHANGED << main, upload, decoderVars, parserVars, scannerVars >>

\* one of the three table calls raises, in its first statement or, for the
\* two-statement calls, in its second; the exception leaves main
TableCallRaises ==
    /\ pc \in { "drop_and_recreate_table", "truncate_table", "create_production_table" }
    /\ \E second \in BOOLEAN :
          table' = CASE second /\ pc = "drop_and_recreate_table" ->
                          [ exists |-> FALSE, rows |-> << >>,
                            log |-> Append(table.log, "drop") ]
                     [] second /\ pc = "truncate_table" -> CreateProductionTable(table)
                     [] OTHER -> table
    /\ main' = [main EXCEPT !.outcome = "raised"]
    /\ pc' = "main_return"
    /\ UNCHANGED << upload, decoderVars, parserVars, scannerVars >>

\* the resume question: 'y' and a number give skip_records, any other
\* answer leaves it 0
AnswerResume ==
    /\ pc = "main_resume"
    /\ \E skip_records \in 0..(MaxFileRecords + 1) :
          main' = [main EXCEPT !.asked = skip_records, !.skip_records = skip_records]
    /\ pc' = "main_files"
    /\ UNCHANGED << table, upload, decoderVars, parserVars, scannerVars >>

\* one pass of "for ebc_file in downloaded" (mode 3: the one local file):
\* the file is scanned and, "if records", uploaded; then skip_records = 0
ProcessFile ==
    /\ pc = "main_files"
    /\ main.next <= Len(main.downloaded)
    /\ LET records == main.downloaded[main.next]
       IN  IF records # << >>
           THEN /\ table' = UploadedTable(table, records, main.skip_records)
                /\ main' = [main EXCEPT
                              !.total_records =
                                  @ + Len(SkipRecords(records, main.skip_records)),
                              !.skips = Append(@, main.skip_records),
                              !.skip_records = 0,
                              !.next = @ + 1]
           ELSE /\ main' = [main EXCEPT !.next = @ + 1]
                /\ UNCHANGED table
    /\ UNCHANGED << pc, upload, decoderVars, parserVars, scannerVars >>

\* upload_to_database raises for the file at hand, before anything of it
\* is committed; the exception leaves main
UploadRaises ==
    /\ pc = "main_files"
    /\ main.next <= Len(main.downloaded)
    /\ SkipRecords(main.downloaded[main.next], main.skip_records) # << >>
    /\ \E created \in BOOLEAN :
          table' = IF created THEN CreateProductionTable(table) ELSE table
    /\ main' = [main EXCEPT !.outcome = "raised"]
    /\ pc' = "main_return"
    /\ UNCHANGED << upload, decoderVars, parserVars, scannerVars >>

\* the files are done
MainComplete ==
    /\ pc = "main_files"
    /\ main.next > Len(main.downloaded)
    /\ main' = [main EXCEPT !.outcome = "complete"]
    /\ pc' = "main_return"
    /\ UNCHANGED << table, upload, decoderVars, parserVars, scannerVars >>

NextMain ==
    \/ ChooseAction \/ AnswerConfirm \/ DropAndRecreateTable \/ TruncateTable
    \/ AppendToTable \/ TableCallRaises \/ AnswerResume \/ ProcessFile
    \/ UploadRaises \/ MainComplete

SpecMain == InitMain /\ [][NextMain]_vars

---------------------------------------------------------------------------
(* Properties of COMP3Decoder, checked under SpecDecode. *)

\* the low nibble of the last byte of a non-empty slice
LastLow(bytes) == bytes[Len(bytes)] % 16

\* the k-th nibble (1-based) of a slice: high nibbles at odd k
NibbleAt(bytes, k) ==
    IF k % 2 = 1 THEN bytes[(k + 1) \div 2] \div 16 ELSE bytes[k \div 2] % 16

\* the digit nibbles of a slice taken as one decimal numeral: all nibbles
\* but the last, the k-th of m weighing 10^(m-k)
RECURSIVE DigitSum(_, _, _)
DigitSum(bytes, k, m) ==
    IF k > m THEN 0
    ELSE NibbleAt(bytes, k) * Pow10(m - k) + DigitSum(bytes, k + 1, m)

Magnitude(bytes) == DigitSum(bytes, 1, 2 * Len(bytes) - 1)

\* the slice with the low nibble of its last byte replaced by s
WithSign(bytes, s) ==
    [bytes EXCEPT ![Len(bytes)] = (bytes[Len(bytes)] \div 16) * 16 + s]

Abs(x) == IF x < 0 THEN -x ELSE x

\* C1: for every non-empty slice decode returns the value of the reference
\* nibble algorithm: the digit nibbles accumulated in order as a decimal
\* numeral, negated iff the last byte's low nibble is 0xD.
C1_DecodeIsReference ==
    (pc = "decode" /\ data # << >>) =>
        ret = Some(IF LastLow(data) = 13 THEN -Magnitude(data)
                   ELSE Magnitude(data))

\* decode(AB 12 3D) ran: a multi-byte slice with a negative sign
C1_Witness ==
    /\ pc = "decode"
    /\ data = << 171, 18, 61 >>
    /\ ret = Some(-111123)

\* C2 as stated: a last low nibble of 0xD yields a negative result, any
\* other low nibble on otherwise identical bytes a non-negative result of
\* equal magnitude.
C2_SignAsStated ==
    (pc = "decode" /\ data # << >>) =>
        /\ LastLow(data) = 13 => ret[1] < 0
        /\ LastLow(data) # 13 => ret[1] >= 0
        /\ \A s \in 0..15 :
              Abs(decode(WithSign(data, s))[1]) = Abs(ret[1])

\* C2 as amended: a last low nibble of 0xD yields the negated magnitude,
\* which is negative unless every digit nibble is zero and then is 0; any
\* other low nibble on otherwise identical bytes yields a non-negative
\* result of equal magnitude.
C2_SignAmended ==
    (pc = "decode" /\ data # << >>) =>
        /\ LastLow(data) = 13 =>
              /\ ret[1] <= 0
              /\ ret[1] = 0 <=> Magnitude(data) = 0
        /\ LastLow(data) # 13 => ret[1] >= 0
        /\ \A s \in 0..15 :
              Abs(decode(WithSign(data, s))[1]) = Abs(ret[1])

\* decode(12 3D) ran and gave -123, the negation of decode(12 3C)
C2_Witness ==
    /\ pc = "decode"
    /\ data = << 18, 61 >>
    /\ ret = Some(-123)
    /\ decode(WithSign(data, 12)) = Some(123)

\* C3: decode returns None for an empty slice and an integer for every
\* non-empty slice.
C3_NoneIffEmpty ==
    pc = "decode" =>
        /\ data = << >> => ret = None
        /\ data # << >> => (Len(ret) = 1 /\ ret[1] \in Int)

\* decode(b'') ran and returned None
C3_Witness ==
    /\ pc = "decode"
    /\ data = << >>
    /\ ret = None

\* a slice with a nibble 0xA..0xF in a digit position
HasBadDigit(bytes) ==
    \E k \in 1..(2 * Len(bytes) - 1) : NibbleAt(bytes, k) >= 10

\* C4: a slice with a nibble 0xA..0xF in a digit position makes decode
\* return None (the absent numeric value).
C4_BadNibbleGivesNone ==
    (pc = "decode" /\ HasBadDigit(data)) => ret = None

C6_KnownVectors ==
    pc = "decode" =>
        /\ data = << 18, 60 >> => ret = Some(123)
        /\ data = << 18, 61 >> => ret = Some(-123)
        /\ data = << 0, 1, 44 >> => ret = Some(12)
        /\ data = << 69, 103, 140 >> => ret = Some(45678)

\* decode(45 67 8C) ran
C6_Witness ==
    /\ pc = "decode"
    /\ data = << 69, 103, 140 >>
    /\ ret = Some(45678)

---------------------------------------------------------------------------
(* Properties of process_ebc_file, checked under SpecScan. *)

\* the number of full frames of a byte string, and its j-th frame (from 0)
FullFrames(bytes) == Len(bytes) \div RECORD_LENGTH
FrameAt(bytes, j) == SubSeq(bytes, j * RECORD_LENGTH + 1, (j + 1) * RECORD_LENGTH)

\* the full frames of a byte string whose first byte is in the set M
FramesMarked(bytes, M) ==
    { j \in 0..(FullFrames(bytes) - 1) : bytes[j * RECORD_LENGTH + 1] \in M }

\* the records of the first k frames of a byte string: those of its well
\* frames, frame after frame
RECURSIVE RecordsOfFrames(_, _)
RecordsOfFrames(bytes, k) ==
    IF k = 0 THEN << >>
    ELSE RecordsOfFrames(bytes, k - 1)
            \o (IF FrameAt(bytes, k - 1)[1] = WELL_RECORD_TYPE
                THEN parse_well_record(FrameAt(bytes, k - 1))
                ELSE << >>)

\* a scan of a readable file has returned
ScanDone == pc = "return" /\ filepath.readable

C8_TailIgnored ==
    (ScanDone /\ Len(file_data) % RECORD_LENGTH # 0) =>
        LET k == FullFrames(file_data)
            prefix == SubSeq(file_data, 1, k * RECORD_LENGTH)
        IN  /\ offset = k * RECORD_LENGTH
            /\ record_count = k
            /\ well_record_count = Cardinality(FramesMarked(prefix, { WELL_RECORD_TYPE }))
            /\ field_record_count = Cardinality(FramesMarked(prefix, { FIELD_RECORD_TYPE }))
            /\ all_records = RecordsOfFrames(prefix, k)
            /\ ~error_logged

\* a file of one well frame and 2119 more bytes of a well frame was scanned
C8_Witness ==
    /\ ScanDone
    /\ Len(file_data) = 2 * RECORD_LENGTH - 1
    /\ record_count = 1
    /\ Len(all_records) = 2

---------------------------------------------------------------------------
(* Properties of parse_well_record, checked under SpecParse. *)

ParseDone == pc = "parse_well_record"

\* C9: a frame whose well-number field (bytes 25..30) decodes to empty text
\* yields no records, whatever else it holds.
C9_EmptyWellNoYieldsNothing ==
    (ParseDone /\ decode_ebcdic_string(PySlice(record_data, 25, 31)) = << >>) =>
        results = << >>

\* a full frame with a blank well number and a qualifying slot 0 was parsed
C9_Witness ==
    /\ ParseDone
    /\ Len(record_data) = RECORD_LENGTH
    /\ PySlice(record_data, 25, 31) = << 64, 64, 64, 64, 64, 64 >>
    /\ PySlice(record_data, 316, 322) = << 242, 240, 242, 243, 240, 241 >>
    /\ PySlice(record_data, 352, 356) = << 0, 0, 18, 60 >>
    /\ results = << >>

\* the date of a slot decodes to a year in 1900..2100 and a month in 1..12
SlotDateValid(rec, i) ==
    LET w_date_str == SlotDateStr(rec, i)
    IN  /\ Len(w_date_str) = 6
        /\ \E year \in 1900..2100, month \in 1..12 :
              /\ PyInt(SubSeq(w_date_str, 1, 4)) = Some(year)
              /\ PyInt(SubSeq(w_date_str, 5, 6)) = Some(month)

\* the condition of C10
SlotQualifies(rec, i) ==
    /\ SlotDateValid(rec, i)
    /\ \/ SlotGasPrd(rec, i) # None
       \/ SlotTypeMo(rec, i) # << >>

\* C10: each monthly slot the parser visits emits a record if and only if
\* its date is a valid year-month and its production decodes or its status
\* is non-empty; the other slots emit nothing, so the parse returns one
\* record per qualifying slot.
C10_SlotEmitsIffQualifies ==
    (ParseDone /\ Header(record_data).well_no # << >>) =>
        /\ \A i \in 0..(num_months - 1) :
              Len(MonthlyRecord(record_data, Header(record_data), i))
                  = IF SlotQualifies(record_data, i) THEN 1 ELSE 0
        /\ Len(results)
              = Cardinality({ i \in 0..(num_months - 1) : SlotQualifies(record_data, i) })

\* a record cut before its production field was parsed: slot 0 has a valid
\* date, a status and no production, and emitted a record
C10_Witness ==
    /\ ParseDone
    /\ Len(record_data) = 337
    /\ SlotGasPrd(record_data, 0) = None
    /\ SlotTypeMo(record_data, 0) = << 65 >>
    /\ Len(results) = 1
    /\ results[1].gas_production = 0

\* the seven header fields of a frame, read at their byte ranges
HeaderOfFrame(rec) ==
    [ well_id    |-> decode_ebcdic_string(SubSeq(rec, 3, 8)),
      oper_id    |-> decode_ebcdic_string(SubSeq(rec, 9, 14)),
      field_id   |-> decode_ebcdic_string(SubSeq(rec, 15, 22)),
      w_dist_no  |-> decode_ebcdic_string(SubSeq(rec, 23, 24)),
      w_dist_sfx |-> decode_ebcdic_string(SubSeq(rec, 25, 25)),
      well_no    |-> decode_ebcdic_string(SubSeq(rec, 26, 31)),
      well_nr    |-> decode_ebcdic_string(SubSeq(rec, 27, 29)) ]

\* the seven header fields a record carries
HeaderOfRecord(r) ==
    [ well_id    |-> r.well_id,
      oper_id    |-> r.oper_id,
      field_id   |-> r.field_id,
      w_dist_no  |-> r.w_dist_no,
      w_dist_sfx |-> r.w_dist_sfx,
      well_no    |-> r.well_no,
      well_nr    |-> r.well_nr ]

\* the slots of a record with a valid year-month and a decodable production
SlotsDatedWithProduction(rec) ==
    { i \in 0..(num_months - 1) : SlotDateValid(rec, i) /\ SlotGasPrd(rec, i) # None }

---------------------------------------------------------------------------
(* Further properties of COMP3Decoder, checked under SpecDecode. *)

\* n bytes 0x00
ZeroBytes(n) == [k \in 1..n |-> 0]

\* C23: decoding depends on the byte content only: a second call on the
\* same non-empty slice returns what the first returned, and the slice
\* with any number of 0x00 bytes put in front decodes to the same value.
C23_LeadingZeroBytesIgnored ==
    (pc = "decode" /\ data # << >>) =>
        /\ ret # None
        /\ decode(data) = ret
        /\ \A n \in 1..MaxLen : decode(ZeroBytes(n) \o data) = ret

\* 0x12 0x3D was decoded to -123, as 0x00 0x00 0x12 0x3D is
C23_Witness ==
    /\ pc = "decode"
    /\ data = << 18, 61 >>
    /\ ret = Some(-123)
    /\ decode(<< 0, 0, 18, 61 >>) = Some(-123)

---------------------------------------------------------------------------
(* Further properties of process_ebc_file, checked under SpecScan. *)

RecordOfSlot(rec, i) == MonthlyRecord(rec, HeaderOfFrame(rec), i)[1]

\* the records of the qualifying slots among the first n slots of a frame,
\* in increasing slot order
RECURSIVE SlotRecordsUpTo(_, _)
SlotRecordsUpTo(rec, n) ==
    IF n = 0 THEN << >>
    ELSE SlotRecordsUpTo(rec, n - 1)
            \o (IF SlotQualifies(rec, n - 1)
                THEN << RecordOfSlot(rec, n - 1) >> ELSE << >>)

\* what one frame contributes to a scan: nothing unless it has the well
\* marker and a well number, else the records of its qualifying slots
FrameContribution(frame) ==
    IF frame[1] = WELL_RECORD_TYPE /\ HeaderOfFrame(frame).well_no # << >>
    THEN SlotRecordsUpTo(frame, num_months)
    ELSE << >>

\* the contributions of the first k frames of a byte string, in stream order
RECURSIVE ContributionsUpTo(_, _)
ContributionsUpTo(bytes, k) ==
    IF k = 0 THEN << >>
    ELSE ContributionsUpTo(bytes, k - 1) \o FrameContribution(FrameAt(bytes, k - 1))

\* C13: the records a scan returns are the concatenation, in stream order
\* of the well frames, of each frame's records in slot order 0..13; a frame
\* contributes one record per qualifying slot, never more than 14.
C13_StreamAndSlotOrder ==
    ScanDone =>
        /\ all_records = ContributionsUpTo(file_data, FullFrames(file_data))
        /\ \A j \in 0..(FullFrames(file_data) - 1) :
              LET frame == FrameAt(file_data, j)
              IN  /\ Len(FrameContribution(frame)) <= 14
                  /\ frame[1] = WELL_RECORD_TYPE =>
                        /\ parse_well_record(frame) = FrameContribution(frame)
                        /\ HeaderOfFrame(frame).well_no # << >> =>
                              Len(parse_well_record(frame))
                                  = Cardinality({ i \in 0..(num_months - 1) :
                                                    SlotQualifies(frame, i) })

\* two well frames were scanned, the first for well 001235 with slot 13
\* only, the second for well 001234 with slots 0 and 13: three records, in
\* that order
C13_Witness ==
    /\ ScanDone
    /\ record_count = 2
    /\ well_record_count = 2
    /\ Len(all_records) = 3
    /\ all_records[1].well_no = << 48, 48, 49, 50, 51, 53 >>
    /\ all_records[2].well_no = << 48, 48, 49, 50, 51, 52 >>
    /\ all_records[2].year_month = << 50, 48, 50, 51, 45, 48, 49, 45, 48, 49 >>
    /\ all_records[3].year_month = << 50, 48, 50, 51, 45, 48, 50, 45, 48, 49 >>

\* C19: when the file cannot be opened, read or decompressed,
\* process_ebc_file does not return normally with a result list: a normal
\* return happens only for a file that was read.
C19_UnreadableDoesNotReturn ==
    pc = "return" => filepath.readable

\* the marker of the frame the scan is about to process
NextMarker == file_data[offset + 1]

\* C20: processing a frame whose first byte is not the well marker adds one
\* to the total and leaves the record list and the well-frame count as they
\* were, whatever the rest of the frame holds; the field-frame count goes
\* up by one if the marker is the field marker and is unchanged otherwise.
C20_NonWellFrameIgnored ==
    [][ (/\ pc = "loop"
         /\ offset + RECORD_LENGTH <= Len(file_data)
         /\ NextMarker # 245) =>
            /\ record_count' = record_count + 1
            /\ offset' = offset + RECORD_LENGTH
            /\ all_records' = all_records
            /\ well_record_count' = well_record_count
            /\ field_record_count'
                  = field_record_count + (IF NextMarker = 241 THEN 1 ELSE 0) ]_vars

\* a well frame with one record, then a frame with marker 0x00 whose slot 0
\* is a valid dated slot, were processed: the second added only to the total
C20_Witness ==
    /\ pc = "loop"
    /\ offset = 2 * RECORD_LENGTH
    /\ file_data[RECORD_LENGTH + 1] = 0
    /\ SubSeq(file_data, RECORD_LENGTH + 317, RECORD_LENGTH + 322)
          = << 242, 240, 242, 243, 240, 241 >>
    /\ record_count = 2
    /\ well_record_count = 1
    /\ field_record_count = 0
    /\ Len(all_records) = 1

\* the local state of the scan in the current state
ScanState ==
    [ offset |-> offset, record_count |-> record_count,
      well_record_count |-> well_record_count,
      field_record_count |-> field_record_count, all_records |-> all_records ]

\* the bytes of the first k frames, and the bytes after them
FirstFrames(bytes, k) == SubSeq(bytes, 1, k * RECORD_LENGTH)
AfterFrames(bytes, k) == SubSeq(bytes, k * RECORD_LENGTH + 1, Len(bytes))

\* C21: frames are parsed independently: for every split of the scanned
\* bytes into A ++ B with A a whole number of frames, the scan of A ++ B
\* has the records of scan(A) followed by those of scan(B), and each of its
\* three counters is the sum of the counters of the two scans.
C21_ScanIsAdditive ==
    ScanDone =>
        /\ ScanState = process_ebc_file(file_data)
        /\ \A k \in 0..FullFrames(file_data) :
              LET A == process_ebc_file(FirstFrames(file_data, k))
                  B == process_ebc_file(AfterFrames(file_data, k))
              IN  /\ all_records = A.all_records \o B.all_records
                  /\ record_count = A.record_count + B.record_count
                  /\ well_record_count = A.well_record_count + B.well_record_count
                  /\ field_record_count = A.field_record_count + B.field_record_count

\* a file of two well frames for different wells, one record and two
\* records, was scanned
C21_Witness ==
    /\ ScanDone
    /\ Len(file_data) = 2 * RECORD_LENGTH
    /\ well_record_count = 2
    /\ Len(all_records) = 3
    /\ all_records[1].well_no = << 48, 48, 49, 50, 51, 53 >>
    /\ all_records[2].well_no = << 48, 48, 49, 50, 51, 52 >>
    /\ process_ebc_file(FirstFrames(file_data, 1)).all_records = << all_records[1] >>
    /\ process_ebc_file(AfterFrames(file_data, 1)).all_records
          = << all_records[2], all_records[3] >>

\* sequence p is a prefix of sequence q
IsPrefix(p, q) == Len(p) <= Len(q) /\ p = SubSeq(q, 1, Len(p))

\* at a frame boundary the scan stands where a scan of only the bytes
\* consumed so far ends
BoundaryIsFullScan ==
    pc = "loop" =>
        /\ offset <= Len(file_data)
        /\ offset % RECORD_LENGTH = 0
        /\ ScanState = process_ebc_file(SubSeq(file_data, 1, offset))

\* C22: the scan can be abandoned at any frame boundary: there, records and
\* counters are those of a full scan of the bytes consumed so far, so
\* nothing of a frame is carried into the next; and every step leaves the
\* records accumulated so far as a prefix of the new list, none removed,
\* changed or reordered.
C22_AbandonAtAnyBoundary ==
    /\ []BoundaryIsFullScan
    /\ [][IsPrefix(all_records, all_records')]_vars

\* two well frames have been consumed and the loop head is reached: the
\* three records so far are those of scanning the first two frames alone
C22_Witness ==
    /\ pc = "loop"
    /\ offset = 2 * RECORD_LENGTH
    /\ Len(file_data) >= 2 * RECORD_LENGTH
    /\ well_record_count = 2
    /\ Len(all_records) = 3
    /\ all_records = process_ebc_file(SubSeq(file_data, 1, offset)).all_records

\* at the loop head, and at the return, the offset is the number of passes
\* times the frame length and is within the bytes read
LoopHeadInvariant ==
    (pc \in { "loop", "return" } /\ filepath.readable) =>
        /\ offset = record_count * 2120
        /\ offset <= Len(file_data)

\* the frame last handed to parse_well_record is 2120 bytes long and starts
\* at a multiple of 2120 among the frames passed
ParsedFrameIsWhole ==
    record_data # << >> =>
        /\ Len(record_data) = 2120
        /\ \E j \in 0..(record_count - 1) :
              record_data = SubSeq(file_data, j * 2120 + 1, j * 2120 + 2120)

\* C24: the scan of every file returns, after exactly floor(len / 2120)
\* passes of the loop; at every loop head offset = record_count * 2120 <=
\* len; every frame handed to parse_well_record starts at a multiple of
\* 2120 and is exactly 2120 bytes long.
C24_LoopTerminates ==
    /\ <>(pc = "return")
    /\ [](ScanDone => record_count = Len(file_data) \div 2120)
    /\ []LoopHeadInvariant
    /\ []ParsedFrameIsWhole

\* a file of two frames and 2119 more bytes was scanned in two passes, the
\* second frame a well frame handed whole to the parser
C24_Witness ==
    /\ ScanDone
    /\ Len(file_data) = 2 * 2120 + 2119
    /\ record_count = 2
    /\ offset = 4240
    /\ record_data = SubSeq(file_data, 2121, 4240)

\* C26: every frame process_ebc_file hands to the parser is 2120 bytes
\* long, so each slot's 4-byte production slice is non-empty and decodes;
\* hence, when the frame has a well number, a slot emits a record if and
\* only if its date is valid, whatever its status, and the record carries
\* the decoded production, never the 0 that stands for a failed decode.
C26_ProductionAlwaysDecodes ==
    record_data # << >> =>
        /\ Len(record_data) = 2120
        /\ \A i \in 0..(num_months - 1) :
              LET slice  == SubSeq(record_data, 316 + 116 * i + 37, 316 + 116 * i + 40)
                  dated  == ParseYearMonth(SlotDateStr(record_data, i)) # None
                  record == MonthlyRecord(record_data, Header(record_data), i)
              IN  /\ Len(slice) = 4
                  /\ SlotGasPrd(record_data, i) # None
                  /\ SlotGasPrd(record_data, i) = decode(slice)
                  /\ Header(record_data).well_no # << >> =>
                        /\ Len(record) = (IF dated THEN 1 ELSE 0)
                        /\ dated => record[1].gas_production = decode(slice)[1]
        /\ Header(record_data).well_no # << >> =>
              Len(results) = Cardinality({ i \in 0..(num_months - 1) :
                                  ParseYearMonth(SlotDateStr(record_data, i)) # None })

\* a scan has returned one record, from a slot with a valid date, a blank
\* status and a production field that decodes to 0
C26_Witness ==
    /\ ScanDone
    /\ Len(record_data) = 2120
    /\ SlotTypeMo(record_data, 0) = << >>
    /\ SlotGasPrd(record_data, 0) = Some(0)
    /\ Len(all_records) = 1
    /\ all_records[1].well_no = << 48, 48, 49, 50, 51, 54 >>
    /\ all_records[1].gas_production = 0
    /\ all_records[1].well_type_month = << >>

---------------------------------------------------------------------------
(* Further properties of parse_well_record, checked under SpecParse. *)

\* a text of exactly six decimal digits CCYYMM, 1900 <= CCYY <= 2100 and
\* 01 <= MM <= 12
SixDigitDate(txt) ==
    /\ Len(txt) = 6
    /\ \A k \in 1..6 : txt[k] \in 48..57
    /\ LET ccyy == 1000 * (txt[1] - 48) + 100 * (txt[2] - 48)
                     + 10 * (txt[3] - 48) + (txt[4] - 48)
           mm   == 10 * (txt[5] - 48) + (txt[6] - 48)
       IN  1900 <= ccyy /\ ccyy <= 2100 /\ 1 <= mm /\ mm <= 12

\* 'CCYY-MM-01' written from the six digits
FirstDayOf(txt) ==
    << txt[1], txt[2], txt[3], txt[4], 45, txt[5], txt[6], 45, 48, 49 >>

\* C14: in a parsed frame with a well number, a slot whose date text is six
\* decimal digits CCYYMM in range carries year_month 'CCYY-MM-01' in the
\* record it emits, and a slot with any other date text emits no record.
C14_SixDigitsOrNothing ==
    (ParseDone /\ decode_ebcdic_string(PySlice(record_data, 25, 31)) # << >>) =>
        \A i \in 0..(num_months - 1) :
            LET txt == SlotDateStr(record_data, i)
                rec == MonthlyRecord(record_data, Header(record_data), i)
            IN  IF SixDigitDate(txt)
                THEN rec # << >> => rec[1].year_month = FirstDayOf(txt)
                ELSE rec = << >>

\* C15: in every record the parser emits, a production field that failed
\* to decode is carried as gas_production = 0 and one that decoded to v is
\* carried as v; an empty status code is carried as empty text, a
\* non-empty one as itself.
C15_AbsentProductionIsZero ==
    (ParseDone /\ decode_ebcdic_string(PySlice(record_data, 25, 31)) # << >>) =>
        LET emitting == { i \in 0..(num_months - 1) : SlotQualifies(record_data, i) }
        IN  /\ Len(results) = Cardinality(emitting)
            /\ \A i \in emitting :
                  LET r == results[Cardinality({ j \in emitting : j <= i })]
                  IN  /\ SlotGasPrd(record_data, i) = None => r.gas_production = 0
                      /\ SlotGasPrd(record_data, i) # None =>
                            r.gas_production = SlotGasPrd(record_data, i)[1]
                      /\ r.well_type_month = SlotTypeMo(record_data, i)
                      /\ SlotTypeMo(record_data, i) = << >> => r.well_type_month = << >>

\* a record cut after the status byte of slot 13 was parsed: slot 0 has a
\* production of 123 and a blank status, slot 13 has status "B" and no
\* production bytes, and its record carries 0
C15_Witness ==
    /\ ParseDone
    /\ Len(record_data) = 1845
    /\ SlotGasPrd(record_data, 13) = None
    /\ SlotTypeMo(record_data, 0) = << >>
    /\ Len(results) = 2
    /\ results[1].gas_production = 123
    /\ results[1].well_type_month = << >>
    /\ results[2].gas_production = 0
    /\ results[2].well_type_month = << 66 >>

\* slot i of two records reads the same date text and the same status
SameDateAndStatus(f, g, i) ==
    /\ SlotDateStr(f, i) = SlotDateStr(g, i)
    /\ SlotTypeMo(f, i) = SlotTypeMo(g, i)

\* records f and g differ only in that the production of slot i decodes to
\* 0 in f and fails to decode in g, slot i qualifying in both
DifferOnlyInZeroVsAbsent(f, g, i) ==
    /\ Header(f) = Header(g)
    /\ Header(f).well_no # << >>
    /\ SlotQualifies(f, i) /\ SlotQualifies(g, i)
    /\ SameDateAndStatus(f, g, i)
    /\ SlotGasPrd(f, i) = Some(0)
    /\ SlotGasPrd(g, i) = None
    /\ \A j \in (0..(num_months - 1)) \ { i } :
          /\ SameDateAndStatus(f, g, j)
          /\ SlotGasPrd(f, j) = SlotGasPrd(g, j)

\* C16: two records that differ only in that one qualifying slot's
\* production decodes to 0 in the first and fails to decode in the second
\* are parsed to different record sequences.
C16_ZeroAndAbsentDistinct ==
    ParseDone =>
        \A n \in CutLengths :
            LET g == PySlice(record_data, 0, n)
            IN  (\E i \in 0..(num_months - 1) :
                    DifferOnlyInZeroVsAbsent(record_data, g, i))
                    => parse_well_record(g) # results

\* the fields of a ProductionRecord
RecordFields ==
    { "well_id", "oper_id", "field_id", "w_dist_no", "w_dist_sfx", "well_no",
      "well_nr", "year_month", "gas_production", "well_type_month" }

\* r is a record of ten fields, its year_month a ten-character text and its
\* gas_production an integer
WellFormedRecord(r) ==
    /\ DOMAIN r = RecordFields
    /\ Len(r.year_month) = 10
    /\ r.gas_production \in Int
    /\ Len(r.well_type_month) <= 1
    /\ r.well_no # << >>

\* C18: for a record of any length, with any field bytes, parse_well_record
\* returns a list of at most 14 well-formed records; a field that lies past
\* the end of the record reads as empty text or as an absent number, and a
\* slot that lies wholly past the end emits nothing.
C18_ShortRecordsDegrade ==
    ParseDone =>
        /\ Len(results) <= num_months
        /\ \A k \in 1..Len(results) : WellFormedRecord(results[k])
        /\ Len(record_data) <= 25 => results = << >>
        /\ \A i \in 0..(num_months - 1) :
              /\ Len(record_data) <= monthly_start + i * monthly_size =>
                    /\ SlotDateStr(record_data, i) = << >>
                    /\ MonthlyRecord(record_data, Header(record_data), i) = << >>
              /\ Len(record_data) <= monthly_start + i * monthly_size + 20 =>
                    SlotTypeMo(record_data, i) = << >>
              /\ Len(record_data) <= monthly_start + i * monthly_size + 36 =>
                    SlotGasPrd(record_data, i) = None

\* a record of 31 bytes was parsed: it ends with the well number 001234
\* and has no monthly slot, and the parse returned the empty list
C18_Witness ==
    /\ ParseDone
    /\ Len(record_data) = 31
    /\ PySlice(record_data, 25, 31) = << 240, 240, 241, 242, 243, 244 >>
    /\ SlotDateStr(record_data, 0) = << >>
    /\ SlotGasPrd(record_data, 0) = None
    /\ results = << >>

\* C25: slot i of 0..13 starts at 316 + 116 * i; its date, status and
\* production reads lie inside its own 116 bytes and inside the 2120-byte
\* frame; the slots follow the header fields (bytes 2..30) and one another
\* without overlap, the last ending at byte 1940; so on a full frame each
\* field is read whole: 6, 1 and 4 bytes.
C25_SlotsInsideFrame ==
    (ParseDone /\ Len(record_data) = 2120) =>
        \A i \in 0..13 :
            LET start == 316 + 116 * i
            IN  /\ SlotOffset(i) = start
                /\ 31 <= start
                /\ start + 116 <= 1940
                /\ i < 13 => start + 116 <= SlotOffset(i + 1)
                /\ i = 13 => start + 116 = 1940
                /\ Len(PySlice(record_data, SlotOffset(i), SlotOffset(i) + 6)) = 6
                /\ Len(PySlice(record_data, SlotOffset(i) + 20, SlotOffset(i) + 21)) = 1
                /\ Len(PySlice(record_data, SlotOffset(i) + 36, SlotOffset(i) + 40)) = 4
                /\ SlotDateStr(record_data, i)
                      = decode_ebcdic_string(SubSeq(record_data, start + 1, start + 6))
                /\ SlotTypeMo(record_data, i)
                      = decode_ebcdic_string(SubSeq(record_data, start + 21, start + 21))
                /\ SlotGasPrd(record_data, i)
                      = decode(SubSeq(record_data, start + 37, start + 40))

\* a full frame was parsed whose last slot, bytes 1824..1939, is dated
\* 202302 with status "B" and production 00 04 56 7D, all read whole
C25_Witness ==
    /\ ParseDone
    /\ Len(record_data) = 2120
    /\ SubSeq(record_data, 1825, 1830) = << 242, 240, 242, 243, 240, 242 >>
    /\ SlotDateStr(record_data, 13) = << 50, 48, 50, 51, 48, 50 >>
    /\ SlotTypeMo(record_data, 13) = << 66 >>
    /\ SlotGasPrd(record_data, 13) = Some(-4567)

---------------------------------------------------------------------------
(* Properties of decode_ebcdic_string, checked under SpecText. *)

\* the whitespace code points below 256
Whitespace == (9..13) \cup (28..32) \cup { 133, 160 }

\* the code points of the bytes, one per byte, before any trimming
DecodedText(bytes) == [k \in 1..Len(bytes) |-> CP500[bytes[k] + 1]]

\* C17: decode_ebcdic_string returns a text for every byte slice, the empty
\* slice included: the decoded text less a run of whitespace at each end,
\* so with no leading or trailing whitespace, and empty for an all-blank
\* field.
C17_TextIsTrimmed ==
    pc = "decode_ebcdic_string" =>
        /\ \E a, b \in 0..Len(data) :
              /\ a + Len(ret) + b = Len(data)
              /\ ret = SubSeq(DecodedText(data), a + 1, a + Len(ret))
              /\ \A k \in 1..a : DecodedText(data)[k] \in Whitespace
              /\ \A k \in (Len(data) - b + 1)..Len(data) :
                    DecodedText(data)[k] \in Whitespace
        /\ ret # << >> => (ret[1] \notin Whitespace /\ ret[Len(ret)] \notin Whitespace)
        /\ (\A k \in 1..Len(data) : data[k] = 64) => ret = << >>

\* the field " A " (0x40 0xC1 0x40) was decoded to "A"
C17_Witness ==
    /\ pc = "decode_ebcdic_string"
    /\ data = << 64, 193, 64 >>
    /\ ret = << 65 >>

---------------------------------------------------------------------------
(* Properties of upload_to_database, checked under SpecUpload. *)

\* the number of "insert" entries of a statement log
RECURSIVE Inserts(_)
Inserts(log) ==
    IF log = << >> THEN 0
    ELSE (IF Head(log) = "insert" THEN 1 ELSE 0) + Inserts(Tail(log))

\* a first call has returned: 0 and an untouched database when there is
\* nothing to upload, else len(records) - skip_records with the table in
\* place and holding records[skip_records:] once each, in order, inserted
\* in ceil((len(records) - skip_records) / batch_size) batches
ReturnedAsStated ==
    (pc = "upload_return" /\ upload.attempt = 1) =>
        LET n == Len(upload.records_arg)
            k == upload.skip_records
            b == upload.batch_size
        IN  IF n = 0 \/ k >= n
            THEN /\ upload.ret = Some(0)
                 /\ table.rows = << >>
                 /\ table.log = << >>
            ELSE /\ upload.ret = Some(n - k)
                 /\ table.exists
                 /\ table.rows = [j \in 1..(n - k) |-> upload.records_arg[k + j]]
                 /\ Inserts(table.log) = (n - k + b - 1) \div b

\* a step that adds rows finds the table in place and adds the next
\* records not yet inserted: batch_size of them, or all that are left if
\* fewer are left
InsertsInBatches ==
    (upload.attempt = 1 /\ table'.rows # table.rows) =>
        LET n    == Len(upload.records_arg)
            k    == upload.skip_records
            done == Len(table.rows)
            size == Min(upload.batch_size, n - k - done)
        IN  /\ table.exists
            /\ size > 0
            /\ table'.rows
                  = table.rows \o [j \in 1..size |-> upload.records_arg[k + done + j]]

\* C27: when no insert fails, upload_to_database ensures the table exists
\* before the first insert, inserts every record of records[skip_records:]
\* exactly once and in order, in consecutive batches of batch_size records
\* except possibly the last, and returns len(records) - skip_records; it
\* returns 0 without touching the database when records is empty or
\* skip_records >= len(records).
C27_UploadsAllInBatches ==
    /\ []ReturnedAsStated
    /\ [][InsertsInBatches]_vars

\* four records were uploaded with skip_records = 1 and batch_size = 2 to
\* a database without the table: a CREATE and two INSERTs, of 2 and 1 rows
C27_Witness ==
    /\ pc = "upload_return"
    /\ upload.attempt = 1
    /\ upload.records_arg = << 1, 2, 3, 4 >>
    /\ upload.skip_records = 1
    /\ upload.batch_size = 2
    /\ upload.ret = Some(3)
    /\ table.rows = << 2, 3, 4 >>
    /\ table.log = << "create", "insert", "insert" >>

\* the count a call last reported in "Uploaded x/y records...", 0 if none
ReportedCount(reported) == IF reported = None THEN 0 ELSE reported[1]

\* how many times record r is in the rows
TimesInserted(rows, r) == Cardinality({ j \in 1..Len(rows) : rows[j] = r })

\* a first call has raised after j committed batches: the rows are the
\* first j * batch_size records it was to upload, nothing of batch j or of
\* a later batch, and j * batch_size is the count last reported
RaisedAfterWholeBatches ==
    (pc = "upload_raised" /\ upload.attempt = 1) =>
        LET j == Inserts(table.log)
            k == upload.skip_records
        IN  /\ Len(table.rows) = j * upload.batch_size
            /\ Len(table.rows) = ReportedCount(upload.reported)
            /\ table.rows = [m \in 1..(j * upload.batch_size) |-> upload.records_arg[k + m]]
            /\ k + Len(table.rows) < Len(upload.records_arg)

\* C28 as stated: each batch is its own transaction, so a call whose
\* insert of batch j fails raises with batches 0..j-1 committed and
\* nothing else, j * batch_size rows, the count last reported; and a
\* second call on the same records with skip_records equal to that count,
\* once returned, leaves every record inserted exactly once.
C28_ResumeAsStated ==
    /\ RaisedAfterWholeBatches
    /\ (/\ pc = "upload_return"
        /\ upload.attempt = 2
        /\ upload.skip_records = ReportedCount(upload.prev[1].reported)) =>
            \A m \in 1..Len(upload.records_arg) :
                TimesInserted(table.rows, upload.records_arg[m]) = 1

\* C28 as amended: the same about the call that raises; and a second call
\* on the same records with skip_records equal to the skip_records of the
\* first call plus that count, once returned, leaves every record the
\* first call was to upload inserted exactly once, in order.
C28_ResumeAmended ==
    /\ RaisedAfterWholeBatches
    /\ (/\ pc = "upload_return"
        /\ upload.attempt = 2
        /\ upload.skip_records
              = upload.prev[1].skip_records + ReportedCount(upload.prev[1].reported)) =>
            /\ table.rows = PySliceFrom(upload.records_arg, upload.prev[1].skip_records)
            /\ \A m \in (upload.prev[1].skip_records + 1)..Len(upload.records_arg) :
                  TimesInserted(table.rows, upload.records_arg[m]) = 1

\* a call on four records with skip_records = 1 and batch_size = 2 raised
\* in its second batch after reporting 2; the call with skip_records = 3
\* has returned, and records 2, 3, 4 are in the table once each
C28_Witness ==
    /\ pc = "upload_return"
    /\ upload.attempt = 2
    /\ upload.records_arg = << 1, 2, 3, 4 >>
    /\ upload.batch_size = 2
    /\ upload.prev = Some([ skip_records |-> 1, reported |-> Some(2), rows |-> << 2, 3 >> ])
    /\ upload.skip_records = 3
    /\ upload.ret = Some(1)
    /\ table.rows = << 2, 3, 4 >>

---------------------------------------------------------------------------
(* Properties of main, checked under SpecMain. *)

RECURSIVE TotalParsed(_)
\* the number of records parsed over the files
TotalParsed(downloaded) ==
    IF downloaded = << >> THEN 0
    ELSE Len(Head(downloaded)) + TotalParsed(Tail(downloaded))

\* some statement of the kind was run on the table
InLog(kind) == \E j \in 1..Len(table.log) : table.log[j] = kind

\* C29: in mode 2, a run that resumes with skip_records = s and completes
\* passed s to its first upload and 0 to every later one, and, when s is
\* not larger than the number of records parsed over all files, uploaded
\* that number minus s.
C29_SkipOnlyAtBeginning ==
    (main.mode = "2" /\ main.outcome = "complete") =>
        /\ \A j \in 1..Len(main.skips) :
              main.skips[j] = IF j = 1 THEN main.asked ELSE 0
        /\ main.asked <= TotalParsed(main.downloaded) =>
              main.total_records = TotalParsed(main.downloaded) - main.asked

\* C30: in modes 2 and 3, DROP is run only after choice '2' and the answer
\* 'yes', DELETE only after choice '1' and the answer 'yes'; an invalid
\* choice or any other answer ends the run with no statement run on the
\* table and nothing uploaded; and whenever the upload step is reached the
\* table exists.
C30_ConfirmedBeforeDropOrClear ==
    main.mode \in { "2", "3" } =>
        /\ InLog("drop") => main.action = "2" /\ main.confirm = "yes"
        /\ InLog("delete") => main.action = "1" /\ main.confirm = "yes"
        /\ ( /\ pc \notin { "main_action", "main_confirm" }
             /\ \/ main.action = "4"
                \/ main.action \in { "1", "2" } /\ main.confirm # "yes" )
           => /\ pc = "main_return"
              /\ main.outcome = "cancelled"
              /\ table \in { NoTable, OldTable }
              /\ main.total_records = 0
              /\ main.skips = << >>
        /\ pc = "main_files" => table.exists
        /\ InLog("insert") => table.exists

\* a confirmed drop-and-recreate followed by a completed upload
C30_Witness ==
    /\ main.mode \in { "2", "3" }
    /\ main.outcome = "complete"
    /\ InLog("drop")
    /\ InLog("insert")
    /\ main.total_records > 0

=============================================================================
